---- MODULE Spec2Model ----
(***************************************************************************)
(* Monthly expense ledger kept in a spreadsheet (google-apps-script.js).   *)
(*                                                                         *)
(* The store is a spreadsheet with one sheet per calendar month.  A sheet  *)
(* is modelled as its grid from row 3 downwards: rows 1 and 2 hold the     *)
(* header and the TOTALS formulas and are never written or deleted by a    *)
(* request.  Every grid row carries the transaction cells A..F (written    *)
(* together, so either all empty or one transaction) and the summary       *)
(* cells H, I, J.  Cell formulas are kept as formulas and evaluated on     *)
(* read, as the spreadsheet does; a formula that refers to a cell of its   *)
(* own row keeps doing so when the row moves.                              *)
(*                                                                         *)
(* Modelling conventions:                                                  *)
(*  - a numeric request parameter is Absent, Junk (present, not a number)  *)
(*    or Num(n); a string parameter is a string, "" when absent;           *)
(*  - a timestamp parameter is a record giving the textual form and the    *)
(*    digits it holds; the time of day is always in range and all dates    *)
(*    are read in the script's time zone;                                  *)
(*  - amounts are integers; a fraction is a record [n, d] with d > 0.     *)
(***************************************************************************)
EXTENDS Integers, Sequences, FiniteSets, TLC

VARIABLES
  sheets,   \* the spreadsheet: sheet name -> grid rows from row 3 downwards
  req,      \* the request that has just completed, until its response is delivered
  resp,     \* the response to it
  prev,     \* the spreadsheet as it was when that request arrived
  pending,  \* <<>> or <<m>>: an update that has appended to the target
            \* sheet and has not yet deleted from the source sheet
  writes    \* the number of write requests carried out so far

vars == <<sheets, req, resp, prev, pending, writes>>

----------------------------------------------------------------------------
(* Bounds of the model *)

\* at most this many write requests are carried out
MaxWrites == 3
\* the highest row index a request names
MaxRowParam == 14

----------------------------------------------------------------------------
(* Request parameters *)

Absent == [k |-> "absent", v |-> 0]
Junk == [k |-> "junk", v |-> 0]
Num(n) == [k |-> "num", v |-> n]

\* parseInt / parseFloat give NaN for an absent or non-numeric parameter
IsNaN(p) == p.k # "num"

\* parseFloat(p) || 0   (and data.x || 0 of the JSON body)
OrZero(p) == IF IsNaN(p) THEN 0 ELSE p.v

\* A timestamp string.  form "dmy": holds DD/MM/YYYY HH:MM:SS (any digits);
\* "iso": an ISO local date-time, well formed; "text": any other text;
\* "missing": the parameter is not there.
Ts(form, y, m, d) == [form |-> form, y |-> y, m |-> m, d |-> d]

TsValid ==
  { Ts("dmy", 2026, 1, 15),     \* 15/01/2026
    Ts("dmy", 2026, 2, 0),      \* 00/02/2026: day 0 of February
    Ts("iso", 2026, 2, 10) }    \* 2026-02-10T..

TsInvalid == { Ts("text", 0, 0, 0), Ts("missing", 0, 0, 0) }

TsParams == TsValid \cup TsInvalid

Fields(vnd, eur, usd, category, note) ==
  [vnd |-> vnd, eur |-> eur, usd |-> usd, category |-> category, note |-> note]

FieldParams ==
  { Fields(Num(50), Num(2), Absent, "Food", "lunch"),
    Fields(Junk, Num(3), Num(1), "Misc", ""),
    Fields(Absent, Num(40), Absent, "food", "") }

RowParams == {Absent, Num(2), Num(3)} \cup {Num(r) : r \in 13..MaxRowParam}

SheetNameParams == {"", "January 2026", "February 2026"}

YearMonthParams ==
  { <<Num(2026), Num(1)>>, <<Num(2026), Num(2)>>, <<Absent, Absent>>,
    <<Num(2026), Num(13)>>, <<Junk, Num(1)>> }

BudgetParams == {Absent, Num(0), Num(-5), Num(2)}

\* new Date() of a request without year/month
Today == [y |-> 2026, m |-> 1]

----------------------------------------------------------------------------
(* Dates *)

InvalidDate == [valid |-> FALSE, y |-> 0, m |-> 0, d |-> 0]

IsLeap(y) == (y % 4 = 0 /\ y % 100 # 0) \/ y % 400 = 0

\* days of month m (0..11) of year y
DaysInMonth(y, m) ==
  IF m = 1 THEN (IF IsLeap(y) THEN 29 ELSE 28)
  ELSE IF m \in {3, 5, 8, 10} THEN 30 ELSE 31

RECURSIVE NormDay(_, _, _)
\* the calendar date of day d of month m (0..11) of year y, d out of range allowed
NormDay(y, m, d) ==
  IF d < 1
    THEN LET pm == IF m = 0 THEN 11 ELSE m - 1
             py == IF m = 0 THEN y - 1 ELSE y
         IN NormDay(py, pm, d + DaysInMonth(py, pm))
  ELSE IF d > DaysInMonth(y, m)
    THEN LET nm == IF m = 11 THEN 0 ELSE m + 1
             ny == IF m = 11 THEN y + 1 ELSE y
         IN NormDay(ny, nm, d - DaysInMonth(y, m))
  ELSE [valid |-> TRUE, y |-> y, m |-> m, d |-> d]

\* new Date(year, monthIndex, day, ...): out-of-range parts carry over
NewDate(y, m, d) == NormDay(y + (m \div 12), m % 12, d)

\* new Date(ts), replaced by the DD/MM/YYYY reading when the pattern matches
ParseTimestamp(ts) ==
  IF ts.form = "dmy" THEN NewDate(ts.y, ts.m - 1, ts.d)
  ELSE IF ts.form = "iso" THEN [valid |-> TRUE, y |-> ts.y, m |-> ts.m - 1, d |-> ts.d]
  ELSE InvalidDate

monthNames ==
  << "January", "February", "March", "April", "May", "June",
     "July", "August", "September", "October", "November", "December" >>

\* getMonthSheetName(date), for a valid date
getMonthSheetName(date) == monthNames[date.m + 1] \o " " \o ToString(date.y)

\* a parse without the validity check of getMonthSheetName
ThrowsOnlyWhenMissing(ts) == ts.form = "missing"

\* whether the handler's parse of ts ends in an exception: ts.match on an
\* absent timestamp, or getMonthSheetName on an invalid date
TimestampThrows(ts) == ts.form = "missing" \/ ~ParseTimestamp(ts).valid

\* getSheetNameFromParams(year, month) on the parsed year/month parameters
getSheetNameFromParams(ym) ==
  LET year == IF ym[1].k = "absent" THEN Num(Today.y) ELSE ym[1]
      month == IF ym[2].k = "absent" THEN Num(Today.m + 1) ELSE ym[2]
  IN (IF ~IsNaN(month) /\ month.v \in 1..12 THEN monthNames[month.v] ELSE "undefined")
       \o " " \o (IF IsNaN(year) THEN "NaN" ELSE ToString(year.v))

----------------------------------------------------------------------------
(* The sheet grid *)

\* the first row a request may name (rows 1 and 2 are header and totals)
FirstDataRow == 3
\* the budget a new sheet starts with (cell I12)
DefaultBudget == 1600
\* the row of the cells I12 and J12 that requests read and write by address
BudgetCellRow == 12

\* grid index of sheet row r (the grid starts at row 3)
Idx(r) == r - (FirstDataRow - 1)

EmptyI == [k |-> "empty", v |-> 0]

BlankRow == [data |-> <<>>, h |-> "", i |-> EmptyI, j |-> "empty"]

IsBlank(row) == row = BlankRow

categories ==
  << "Food", "Travel", "Shopping", "Bills", "Fun", "Health", "Groceries",
     "Saving", "Other" >>

\* the grid of a sheet just made by createMonthSheet: H3:H11 the category
\* labels with their SUMIF (I) and share (J) formulas, row 12 the budget
createMonthSheet ==
  [n \in 1..10 |->
     IF n <= 9
       THEN [data |-> <<>>, h |-> categories[n],
             i |-> [k |-> "sumif", v |-> 0], j |-> "pct"]
       ELSE [data |-> <<>>, h |-> "Budget",
             i |-> [k |-> "num", v |-> DefaultBudget], j |-> "budget"]]

\* ss.getSheetByName(name) finds a sheet
HasSheet(ss, name) == name \in DOMAIN ss

\* a getOrCreateMonthSheet that makes a fresh sheet whether or not one exists
getOrCreateAlwaysCreates(ss, date) ==
  [n \in DOMAIN ss \cup {getMonthSheetName(date)} |->
     IF n = getMonthSheetName(date) THEN createMonthSheet ELSE ss[n]]

\* the spreadsheet after getOrCreateMonthSheet(date)
getOrCreateMonthSheet(ss, date) ==
  LET sheetName == getMonthSheetName(date)
  IN IF HasSheet(ss, sheetName) THEN ss ELSE ss @@ (sheetName :> createMonthSheet)

\* sheet.getLastRow(): the last row with content in any column
LastRow(rows) == Len(rows) + (FirstDataRow - 1)

\* the cells A..F of a row written by a request
Txn(ts, f) ==
  [timestamp |-> ts, vnd |-> OrZero(f.vnd), eur |-> OrZero(f.eur),
   usd |-> OrZero(f.usd), category |-> f.category, note |-> f.note]

\* an appendRow that writes into the first row whose cells A..F are empty
appendRowFirstFree(rows, t) ==
  IF \E k \in 1..Len(rows) : rows[k].data = <<>>
    THEN LET k == CHOOSE n \in 1..Len(rows) :
                    /\ rows[n].data = <<>>
                    /\ \A m \in 1..(n - 1) : rows[m].data # <<>>
         IN [rows EXCEPT ![k].data = <<t>>]
    ELSE Append(rows, [data |-> <<t>>, h |-> "", i |-> [k |-> "empty", v |-> 0], j |-> "empty"])

\* sheet.appendRow(cells): a new row below the last row that has content
appendRow(rows, t) == Append(rows, [BlankRow EXCEPT !.data = <<t>>])

RECURSIVE Trim(_)
\* rows without content at the bottom of the grid are not part of it
Trim(rows) ==
  IF rows # <<>> /\ IsBlank(rows[Len(rows)])
    THEN Trim(SubSeq(rows, 1, Len(rows) - 1))
    ELSE rows

\* a deleteRow that empties cells A..F of the row and leaves it in place
deleteRowClears(rows, r) ==
  IF Idx(r) > Len(rows) THEN rows
  ELSE Trim([rows EXCEPT ![Idx(r)].data = <<>>])

\* sheet.deleteRow(r): the row goes, with all its cells; rows below move up
deleteRow(rows, r) ==
  IF Idx(r) > Len(rows) THEN rows
  ELSE Trim(SubSeq(rows, 1, Idx(r) - 1) \o SubSeq(rows, Idx(r) + 1, Len(rows)))

\* the grid extended with blank rows so that row r is in it
Extend(rows, r) ==
  IF Idx(r) <= Len(rows) THEN rows
  ELSE rows \o [n \in 1..(Idx(r) - Len(rows)) |-> BlankRow]

\* a setValues over the five cells A..E: the note cell keeps what it held
setValuesFiveCells(rows, r, t) ==
  LET old == Extend(rows, r)[Idx(r)].data
  IN [Extend(rows, r) EXCEPT
        ![Idx(r)].data = << [t EXCEPT !.note = IF old = <<>> THEN "" ELSE old[1].note] >>]

\* sheet.getRange(r, 1, 1, 6).setValues([cells])
setValues(rows, r, t) == [Extend(rows, r) EXCEPT ![Idx(r)].data = <<t>>]

\* sheet.getRange('I12').setValue(amount)
setBudget(rows, amount) ==
  [Extend(rows, BudgetCellRow) EXCEPT ![Idx(BudgetCellRow)].i = [k |-> "num", v |-> amount]]

----------------------------------------------------------------------------
(* Formulas, evaluated on read *)

RECURSIVE ColumnSum(_, _, _)
\* SUM over column col of the grid rows from..Len(rows)
ColumnSum(rows, col, from) ==
  IF from > Len(rows) THEN 0
  ELSE (IF rows[from].data = <<>> THEN 0 ELSE rows[from].data[1][col])
       + ColumnSum(rows, col, from + 1)

\* the three totals cells all given the formula of C2
TotalOfOneColumn(rows, col) == ColumnSum(rows, "eur", Idx(FirstDataRow))

\* cells B2, C2, D2: =SUM(B3:B), =SUM(C3:C), =SUM(D3:D)
Total(rows, col) == ColumnSum(rows, col, Idx(FirstDataRow))

\* text comparison of a SUMIF criterion ignores letter case
Lower(s) ==
  IF s = "Food" THEN "food" ELSE IF s = "Misc" THEN "misc" ELSE s

RECURSIVE SumIf(_, _, _)
\* =SUMIF($E$3:$E, label, $C$3:$C)
SumIf(rows, label, from) ==
  IF from > Len(rows) THEN 0
  ELSE (IF rows[from].data # <<>> /\ Lower(rows[from].data[1].category) = Lower(label)
          THEN rows[from].data[1].eur ELSE 0)
       + SumIf(rows, label, from + 1)

Text(s) == [k |-> "str", n |-> 0, d |-> 1, s |-> s]
Number(n, d) == [k |-> "num", n |-> n, d |-> d, s |-> ""]

\* getValue() of the I cell of grid row k
ValueI(rows, k) ==
  IF k > Len(rows) \/ rows[k].i.k = "empty" THEN Text("")
  ELSE IF rows[k].i.k = "num" THEN Number(rows[k].i.v, 1)
  ELSE Number(SumIf(rows, rows[k].h, Idx(FirstDataRow)), 1)

\* getValue() of the J cell of grid row k:
\*   =IF($C$2=0,0,I<row>/$C$2) on a category row, =1-C2/I<row> on the budget row
ValueJ(rows, k) ==
  IF k > Len(rows) \/ rows[k].j = "empty" THEN Text("")
  ELSE LET c2 == Total(rows, "eur")
           iv == ValueI(rows, k)
       IN IF rows[k].j = "pct"
            THEN (IF c2 = 0 THEN Number(0, 1)
                  ELSE IF c2 < 0 THEN Number(-iv.n, -c2) ELSE Number(iv.n, c2))
          ELSE IF iv.k = "str" \/ iv.n = 0 THEN Text("#DIV/0!")
          ELSE IF iv.n < 0 THEN Number(c2 - iv.n, -iv.n) ELSE Number(iv.n - c2, iv.n)

\* Math.round of the fraction n/d, d > 0
Round(n, d) == (2 * n + d) \div (2 * d)

Abs(n) == IF n < 0 THEN -n ELSE n

\* parsePct(p) for a cell value p (no cell value is a string with a % sign)
parsePct(p) ==
  IF p.k = "str" THEN 0
  ELSE IF Abs(p.n) < 10 * p.d /\ p.n # 0 THEN Round(100 * p.n, p.d)
  ELSE Round(p.n, p.d)

\* Number(v) || 0 for a cell value that is a whole number or text
NumberOrZero(v) == IF v.k = "str" THEN 0 ELSE v.n

----------------------------------------------------------------------------
(* Read responses *)

\* the grid rows that hold a transaction (column A is not empty)
TxnRows(rows) == {k \in 1..Len(rows) : rows[k].data # <<>>}

\* toISO(cell): the instant the stored timestamp text denotes
toISO(ts) == ParseTimestamp(ts)

RECURSIVE ListingIndexAsRow(_, _, _)
\* a listing that reports the index i of the values array as the row
ListingIndexAsRow(rows, name, k) ==
  IF k = 0 THEN <<>>
  ELSE (IF rows[k].data = <<>> THEN <<>>
        ELSE << [row |-> k + (FirstDataRow - 2), sheetName |-> name,
                 timestamp |-> toISO(rows[k].data[1].timestamp),
                 vnd |-> rows[k].data[1].vnd, eur |-> rows[k].data[1].eur,
                 usd |-> rows[k].data[1].usd,
                 category |-> rows[k].data[1].category,
                 note |-> rows[k].data[1].note] >>)
       \o ListingIndexAsRow(rows, name, k - 1)

RECURSIVE Listing(_, _, _)
\* the loop "for (i = values.length - 1; i >= 2; i--)" from grid row k down
Listing(rows, name, k) ==
  IF k = 0 THEN <<>>
  ELSE (IF rows[k].data = <<>> THEN <<>>
        ELSE << [row |-> k + (FirstDataRow - 1), sheetName |-> name,
                 timestamp |-> toISO(rows[k].data[1].timestamp),
                 vnd |-> rows[k].data[1].vnd, eur |-> rows[k].data[1].eur,
                 usd |-> rows[k].data[1].usd,
                 category |-> rows[k].data[1].category,
                 note |-> rows[k].data[1].note] >>)
       \o Listing(rows, name, k - 1)

Transactions(rows, name) == Listing(rows, name, Len(rows))

\* the labels found in H3:H11
StatLabels(rows) == {rows[k].h : k \in {n \in 1..9 : n <= Len(rows) /\ rows[n].h # ""}}

\* stats: one entry per label found in H3:H11, from the I and J cells beside it
Stats(rows) ==
  [c \in StatLabels(rows) |->
     LET k == CHOOSE n \in 1..9 : n <= Len(rows) /\ rows[n].h = c
     IN [amount |-> NumberOrZero(ValueI(rows, k)), percent |-> parsePct(ValueJ(rows, k))]]

\* budget: cells I12 and J12
Budget(rows) ==
  [amount |-> NumberOrZero(ValueI(rows, Idx(BudgetCellRow))),
   percent |-> parsePct(ValueJ(rows, Idx(BudgetCellRow)))]

NoStats == [c \in {} |-> 0]

\* the answer of doGet when the month has no sheet and the action is one of
\* getAllData, getTransactions, getStats
EmptyResponse ==
  [status |-> "success", totalVND |-> 0, totalEUR |-> 0, totalUSD |-> 0,
   transactions |-> <<>>, stats |-> NoStats, budget |-> [amount |-> 0, percent |-> 0]]

getAllData(rows, name) ==
  [status |-> "success",
   totalVND |-> Total(rows, "vnd"), totalEUR |-> Total(rows, "eur"),
   totalUSD |-> Total(rows, "usd"),
   transactions |-> Transactions(rows, name),
   stats |-> Stats(rows), budget |-> Budget(rows)]

getMonthlyTotals(rows) ==
  [status |-> "success",
   totalVND |-> Total(rows, "vnd"), totalEUR |-> Total(rows, "eur"),
   totalUSD |-> Total(rows, "usd")]

getTransactionHistory(rows, name) ==
  [status |-> "success", transactions |-> Transactions(rows, name)]

getStatsData(rows) ==
  [status |-> "success", stats |-> Stats(rows), budget |-> Budget(rows)]

\* the script ended in an exception nothing caught: no JSON response
Uncaught == [status |-> "exception"]

ReadActions == {"getAllData", "getTransactions", "getStats", "default"}

\* doGet for a read action on the sheet named by year/month
ReadResponse(ss, action, ym) ==
  LET sheetName == getSheetNameFromParams(ym)
  IN IF ~HasSheet(ss, sheetName)
       THEN (IF action = "default" THEN Uncaught ELSE EmptyResponse)
     ELSE IF action = "getAllData" THEN getAllData(ss[sheetName], sheetName)
     ELSE IF action = "getTransactions" THEN getTransactionHistory(ss[sheetName], sheetName)
     ELSE IF action = "getStats" THEN getStatsData(ss[sheetName])
     ELSE getMonthlyTotals(ss[sheetName])

ok(msg) == [status |-> "success", message |-> msg]
err(msg) == [status |-> "error", message |-> msg]

----------------------------------------------------------------------------
(* State measures used by the properties *)

RECURSIVE SumOver(_, _)
\* the number of transactions in the sheets named in S
SumOver(ss, S) ==
  IF S = {} THEN 0
  ELSE LET n == CHOOSE x \in S : TRUE
       IN Cardinality(TxnRows(ss[n])) + SumOver(ss, S \ {n})

TxnCount(ss) == SumOver(ss, DOMAIN ss)

\* whether row r of sheet name holds a transaction
HoldsTxn(ss, name, r) == HasSheet(ss, name) /\ Idx(r) \in TxnRows(ss[name])

----------------------------------------------------------------------------
(* Requests *)

NoRequest == [action |-> "none"]
NoResponse == [status |-> "none"]

Init ==
  /\ sheets = <<>>
  /\ req = NoRequest
  /\ resp = NoResponse
  /\ prev = <<>>
  /\ pending = <<>>
  /\ writes = 0

\* the script runs one request at a time: a request starts when the response
\* to the one before it has been delivered
Quiet == req = NoRequest

Idle == Quiet /\ pending = <<>>

\* bound: one more write request may be carried out
MayWrite == writes < MaxWrites

\* request r ends with response a, leaving the spreadsheet as ss
Done(r, a, ss) ==
  /\ req' = r
  /\ resp' = a
  /\ sheets' = ss
  /\ prev' = sheets
  /\ pending' = <<>>

\* a request record holds the parameters the handler read before it returned
Refused(r, a) == Done(r, a, sheets) /\ UNCHANGED writes

Written(r, a, ss) == Done(r, a, ss) /\ writes' = writes + 1

\* the check of delete and update without "row < 3"
BadTargetAnyRow(row, name) == IsNaN(row) \/ row.v = 0 \/ name = ""

\* "!row || row < 3 || !sheetName" of delete and update
BadTarget(row, name) == IsNaN(row) \/ row.v = 0 \/ row.v < FirstDataRow \/ name = ""

DeleteRequest(row, name) == [action |-> "delete", row |-> row, sheetName |-> name]

\* doGet, action delete: the parameters or the sheet name are refused
DeleteRefused(row, name) ==
  /\ Idle
  /\ BadTarget(row, name) \/ ~HasSheet(sheets, name)
  /\ Refused(DeleteRequest(row, name),
             IF BadTarget(row, name) THEN err("Invalid parameters for delete")
             ELSE err("Sheet not found"))

\* doGet, action delete: the row is deleted
Delete(row, name) ==
  /\ Idle
  /\ MayWrite
  /\ ~BadTarget(row, name)
  /\ HasSheet(sheets, name)
  /\ Written(DeleteRequest(row, name), ok("Deleted row"),
             [sheets EXCEPT ![name] = deleteRow(@, row.v)])

\* doGet, action delete: the spreadsheet rejects deleteRow
DeleteFails(row, name) ==
  /\ Idle
  /\ ~BadTarget(row, name)
  /\ HasSheet(sheets, name)
  /\ Refused(DeleteRequest(row, name), err("Delete failed"))

\* doGet, action update: the row or the sheet name are refused, before the
\* timestamp and the fields are read
UpdateRefused(row, name) ==
  /\ Idle
  /\ BadTarget(row, name) \/ ~HasSheet(sheets, name)
  /\ Refused([action |-> "update", row |-> row, sheetName |-> name],
             IF BadTarget(row, name) THEN err("Invalid parameters for update")
             ELSE err("Sheet not found"))

\* doGet, action update: the timestamp is refused, before the fields are read
UpdateBadTimestamp(row, name, ts) ==
  /\ Idle
  /\ ~BadTarget(row, name)
  /\ HasSheet(sheets, name)
  /\ TimestampThrows(ts)
  /\ Refused([action |-> "update", row |-> row, sheetName |-> name, timestamp |-> ts],
             err("Update failed"))

UpdateRequest(row, name, ts, f) ==
  [action |-> "update", row |-> row, sheetName |-> name, timestamp |-> ts, fields |-> f]

\* a move test on the month as written in the timestamp text
IsMoveByWrittenMonth(name, ts) ==
  (IF ts.m \in 1..12 THEN monthNames[ts.m] ELSE "undefined") \o " " \o ToString(ts.y) # name

\* whether the update is a move: newSheetName !== sheetNameForUpdate
IsMove(name, ts) == getMonthSheetName(ParseTimestamp(ts)) # name

\* doGet, action update, same month: the row's six cells are overwritten
UpdateInPlace(row, name, ts, f) ==
  /\ Idle
  /\ MayWrite
  /\ ~BadTarget(row, name)
  /\ HasSheet(sheets, name)
  /\ ~TimestampThrows(ts)
  /\ ~IsMove(name, ts)
  /\ Written(UpdateRequest(row, name, ts, f), ok("Updated row"),
             [sheets EXCEPT ![name] = setValues(@, row.v, Txn(ts, f))])

\* the spreadsheet after "getOrCreateMonthSheet(date).appendRow(cells)"
AppendTo(ss, ts, f) ==
  LET date == ParseTimestamp(ts)
  IN [getOrCreateMonthSheet(ss, date) EXCEPT
        ![getMonthSheetName(date)] = appendRow(@, Txn(ts, f))]

\* a move whose first write is the delete from the source sheet
MoveDeletesFirst(row, name, ts, f) ==
  /\ Idle
  /\ MayWrite
  /\ ~BadTarget(row, name)
  /\ HasSheet(sheets, name)
  /\ ~TimestampThrows(ts)
  /\ IsMove(name, ts)
  /\ sheets' = [sheets EXCEPT ![name] = deleteRow(@, row.v)]
  /\ pending' = << [req |-> UpdateRequest(row, name, ts, f), prev |-> sheets] >>
  /\ prev' = sheets'
  /\ writes' = writes + 1
  /\ UNCHANGED <<req, resp>>

\* doGet, action update, other month, first write: append to the target sheet
MoveAppend(row, name, ts, f) ==
  /\ Idle
  /\ MayWrite
  /\ ~BadTarget(row, name)
  /\ HasSheet(sheets, name)
  /\ ~TimestampThrows(ts)
  /\ IsMove(name, ts)
  /\ sheets' = AppendTo(sheets, ts, f)
  /\ pending' = << [req |-> UpdateRequest(row, name, ts, f), prev |-> sheets] >>
  /\ prev' = sheets'
  /\ writes' = writes + 1
  /\ UNCHANGED <<req, resp>>

\* a move that answers without the delete from the source sheet
MoveKeepsSource ==
  /\ Quiet
  /\ pending # <<>>
  /\ LET m == pending[1]
     IN /\ req' = m.req
        /\ resp' = ok("Moved")
        /\ prev' = m.prev
        /\ pending' = <<>>
        /\ UNCHANGED <<sheets, writes>>

\* doGet, action update, other month, second write: delete from the source sheet
MoveDelete ==
  /\ Quiet
  /\ pending # <<>>
  /\ LET m == pending[1]
     IN /\ req' = m.req
        /\ resp' = ok("Moved")
        /\ sheets' = [sheets EXCEPT ![m.req.sheetName] = deleteRow(@, m.req.row.v)]
        /\ prev' = m.prev
        /\ pending' = <<>>
        /\ UNCHANGED writes

\* a failed delete after which the appended row is taken back
MoveDeleteFailsRollsBack ==
  /\ Quiet
  /\ pending # <<>>
  /\ LET m == pending[1]
     IN /\ req' = m.req
        /\ resp' = err("Update failed")
        /\ sheets' = m.prev
        /\ prev' = m.prev
        /\ pending' = <<>>
        /\ UNCHANGED writes

\* doGet, action update, other month: the spreadsheet rejects deleteRow
MoveDeleteFails ==
  /\ Quiet
  /\ pending # <<>>
  /\ LET m == pending[1]
     IN /\ req' = m.req
        /\ resp' = err("Update failed")
        /\ prev' = m.prev
        /\ pending' = <<>>
        /\ UNCHANGED <<sheets, writes>>

\* doGet action addEntry ("addEntry") and doPost ("post"): the timestamp is
\* refused, before a field is used
AddRefused(how, ts) ==
  /\ Idle
  /\ TimestampThrows(ts)
  /\ Refused([action |-> how, timestamp |-> ts], err("Add failed"))

\* doGet action addEntry ("addEntry") and doPost ("post"): a row is appended
AddEntry(how, ts, f) ==
  /\ Idle
  /\ MayWrite
  /\ ~TimestampThrows(ts)
  /\ Written([action |-> how, timestamp |-> ts, fields |-> f], ok("Added"),
             AppendTo(sheets, ts, f))

\* the checks of updateBudget without the range test of the month
BadBudgetAnyMonth(ym, budget) ==
  \/ IsNaN(budget) \/ budget.v <= 0
  \/ ym[1].k = "junk" \/ ym[2].k = "junk"

\* updateBudget's checks of budget, year and month
BadBudget(ym, budget) ==
  \/ IsNaN(budget) \/ budget.v <= 0
  \/ ym[1].k = "junk" \/ ym[2].k = "junk"
  \/ (ym[2].k = "num" /\ (ym[2].v < 1 \/ ym[2].v > 12))

BudgetRequest(ym, budget) ==
  [action |-> "updateBudget", year |-> ym[1], month |-> ym[2], budget |-> budget]

\* doGet, action updateBudget: the budget, year or month are refused
UpdateBudgetRefused(ym, budget) ==
  /\ Idle
  /\ BadBudget(ym, budget)
  /\ Refused(BudgetRequest(ym, budget),
             IF IsNaN(budget) \/ budget.v <= 0 THEN err("Invalid budget amount")
             ELSE err("Invalid year or month parameters"))

\* new Date(year, month - 1, 1) of updateBudget
BudgetDate(ym) ==
  NewDate(IF ym[1].k = "absent" THEN Today.y ELSE ym[1].v,
          (IF ym[2].k = "absent" THEN Today.m + 1 ELSE ym[2].v) - 1, 1)

\* doGet, action updateBudget: cell I12 of the month's sheet is set
UpdateBudget(ym, budget) ==
  /\ Idle
  /\ MayWrite
  /\ ~BadBudget(ym, budget)
  /\ LET sheetName == getSheetNameFromParams(ym)
         ss == IF HasSheet(sheets, sheetName) THEN sheets
               ELSE getOrCreateMonthSheet(sheets, BudgetDate(ym))
         target == IF HasSheet(sheets, sheetName) THEN sheetName
                   ELSE getMonthSheetName(BudgetDate(ym))
     IN Written(BudgetRequest(ym, budget), ok("Budget updated"),
                [ss EXCEPT ![target] = setBudget(@, budget.v)])

\* doGet, the read actions; a read may run between the two writes of a move
Read(action, ym) ==
  /\ Quiet
  /\ req' = [action |-> action, year |-> ym[1], month |-> ym[2]]
  /\ resp' = ReadResponse(sheets, action, ym)
  /\ prev' = sheets
  /\ UNCHANGED <<sheets, pending, writes>>

\* the response leaves the script; the spreadsheet is what stays
Deliver ==
  /\ ~Quiet
  /\ req' = NoRequest
  /\ resp' = NoResponse
  /\ prev' = sheets
  /\ UNCHANGED <<sheets, pending, writes>>

Next ==
  \/ Deliver
  \/ \E row \in RowParams, name \in SheetNameParams :
       \/ DeleteRefused(row, name)
       \/ Delete(row, name)
       \/ DeleteFails(row, name)
       \/ UpdateRefused(row, name)
       \/ \E ts \in TsParams :
            \/ UpdateBadTimestamp(row, name, ts)
            \/ \E f \in FieldParams :
                 \/ UpdateInPlace(row, name, ts, f)
                 \/ MoveAppend(row, name, ts, f)
  \/ MoveDelete
  \/ MoveDeleteFails
  \/ \E how \in {"addEntry", "post"}, ts \in TsParams :
       \/ AddRefused(how, ts)
       \/ \E f \in FieldParams : AddEntry(how, ts, f)
  \/ \E ym \in YearMonthParams, budget \in BudgetParams :
       \/ UpdateBudgetRefused(ym, budget)
       \/ UpdateBudget(ym, budget)
  \/ \E action \in ReadActions, ym \in YearMonthParams : Read(action, ym)

Spec == Init /\ [][Next]_vars

----------------------------------------------------------------------------
(* Vocabulary of the properties *)

\* cells A..F of grid row k: <<>> or <<transaction>>
DataAt(rows, k) == IF k >= 1 /\ k <= Len(rows) THEN rows[k].data ELSE <<>>

\* cells H..J of grid row k
SummaryAt(rows, k) ==
  IF k >= 1 /\ k <= Len(rows) THEN <<rows[k].h, rows[k].i, rows[k].j>>
  ELSE <<BlankRow.h, BlankRow.i, BlankRow.j>>

RECURSIVE DataFrom(_, _)
\* the transactions of a sheet in row order, from grid row k on
DataFrom(rows, k) ==
  IF k > Len(rows) THEN <<>> ELSE rows[k].data \o DataFrom(rows, k + 1)

DataSeq(rows) == DataFrom(rows, 1)

\* the transactions of sheet name, none when there is no such sheet
DataOf(ss, name) == IF HasSheet(ss, name) THEN DataSeq(ss[name]) ELSE <<>>

\* sequence s without its n-th element
Without(s, n) == SubSeq(s, 1, n - 1) \o SubSeq(s, n + 1, Len(s))

\* the transaction a request submits: absent or non-numeric amounts count 0
Submitted(r) ==
  [timestamp |-> r.timestamp,
   vnd |-> IF r.fields.vnd.k = "num" THEN r.fields.vnd.v ELSE 0,
   eur |-> IF r.fields.eur.k = "num" THEN r.fields.eur.v ELSE 0,
   usd |-> IF r.fields.usd.k = "num" THEN r.fields.usd.v ELSE 0,
   category |-> r.fields.category,
   note |-> r.fields.note]

\* every sheet but name is as it was when the request arrived
OthersUnchanged(name) ==
  /\ DOMAIN sheets \ {name} = DOMAIN prev \ {name}
  /\ \A n \in DOMAIN prev \ {name} : sheets[n] = prev[n]

RECURSIVE AmountSum(_, _)
\* the sum of one currency over a list of transaction entries
AmountSum(list, col) ==
  IF list = <<>> THEN 0 ELSE Head(list)[col] + AmountSum(Tail(list), col)

\* what getAllData answers for the month whose sheet is called name
ViewOf(ss, name) ==
  IF HasSheet(ss, name) THEN getAllData(ss[name], name) ELSE EmptyResponse

Succeeded(action) == req.action = action /\ resp.status = "success"

Moved == req.action = "update" /\ resp = ok("Moved")
UpdatedInPlace == req.action = "update" /\ resp = ok("Updated row")
Appended == req.action \in {"addEntry", "post"} /\ resp.status = "success"

----------------------------------------------------------------------------
(* Properties *)

\* C1: the three totals getAllData returns for a month are, each for its own
\* currency, the sums of that currency over the transactions it lists.
C1_TotalsAreSums ==
  req.action = "getAllData" =>
    /\ resp.totalVND = AmountSum(resp.transactions, "vnd")
    /\ resp.totalEUR = AmountSum(resp.transactions, "eur")
    /\ resp.totalUSD = AmountSum(resp.transactions, "usd")

\* getAllData has answered for a sheet of two transactions after a delete
\* or an update went before
C1_Witness ==
  /\ req.action = "getAllData"
  /\ Len(resp.transactions) >= 2
  /\ resp.totalVND # resp.totalEUR
  /\ resp.totalEUR # resp.totalUSD
  /\ writes = MaxWrites

\* C2: a successful update of a row that holds a transaction, with a
\* timestamp of another month, takes that transaction out of the source
\* sheet, leaves the source's other transactions as they were, and adds
\* exactly the submitted transaction to the target month's sheet.
C2_MoveRelocates ==
  (Moved /\ HoldsTxn(prev, req.sheetName, req.row.v)) =>
    LET P == req.sheetName
        T == getMonthSheetName(ParseTimestamp(req.timestamp))
        n == Cardinality({k \in TxnRows(prev[P]) : k <= Idx(req.row.v)})
    IN /\ T # P
       /\ DataOf(sheets, P) = Without(DataOf(prev, P), n)
       /\ Len(DataOf(sheets, P)) = Len(DataOf(prev, P)) - 1
       /\ DataOf(sheets, T) = Append(DataOf(prev, T), Submitted(req))
       /\ \A o \in DOMAIN prev \ {P, T} : HasSheet(sheets, o) /\ sheets[o] = prev[o]

\* a move out of a sheet that held a second transaction, into a month that
\* had no sheet
C2_Witness ==
  /\ Moved
  /\ HoldsTxn(prev, req.sheetName, req.row.v)
  /\ Len(DataOf(prev, req.sheetName)) = 2
  /\ ~HasSheet(prev, getMonthSheetName(ParseTimestamp(req.timestamp)))

\* C3: a successful update with a timestamp of the sheet's own month writes
\* the submitted values into cells A..F of the named row and changes nothing
\* else: no other cell of the sheet, no other sheet; when the row held a
\* transaction the sheet holds as many transactions as before.
C3_InPlaceFrame ==
  UpdatedInPlace =>
    LET P == req.sheetName
        r == req.row.v
    IN /\ getMonthSheetName(ParseTimestamp(req.timestamp)) = P
       /\ HasSheet(prev, P) /\ HasSheet(sheets, P)
       /\ DataAt(sheets[P], Idx(r)) = <<Submitted(req)>>
       /\ SummaryAt(sheets[P], Idx(r)) = SummaryAt(prev[P], Idx(r))
       /\ \A k \in 1..(Len(sheets[P]) + Len(prev[P])) :
            k # Idx(r) =>
              /\ DataAt(sheets[P], k) = DataAt(prev[P], k)
              /\ SummaryAt(sheets[P], k) = SummaryAt(prev[P], k)
       /\ OthersUnchanged(P)
       /\ HoldsTxn(prev, P, r) => Len(DataOf(sheets, P)) = Len(DataOf(prev, P))

\* an in-place update has changed the fields of a transaction that has a
\* neighbour in its sheet
C3_Witness ==
  /\ UpdatedInPlace
  /\ HoldsTxn(prev, req.sheetName, req.row.v)
  /\ DataAt(prev[req.sheetName], Idx(req.row.v)) # <<Submitted(req)>>
  /\ Len(DataOf(prev, req.sheetName)) = 2

\* C4: a successful delete of row r takes out what row r held: every
\* transaction of a row above r (r' > r) is afterwards at row r' - 1, every
\* transaction of a row r' < r stays where it is, and no other sheet changes.
C4_DeleteShifts ==
  Succeeded("delete") =>
    LET P == req.sheetName
        r == req.row.v
    IN /\ HasSheet(prev, P) /\ HasSheet(sheets, P)
       /\ \A k \in 1..(Len(prev[P]) + 1) :
            DataAt(sheets[P], k) =
              IF k < Idx(r) THEN DataAt(prev[P], k) ELSE DataAt(prev[P], k + 1)
       /\ OthersUnchanged(P)

\* a delete of a transaction that had another transaction in the row after it
C4_Witness ==
  /\ Succeeded("delete")
  /\ HoldsTxn(prev, req.sheetName, req.row.v)
  /\ HoldsTxn(prev, req.sheetName, req.row.v + 1)
  /\ DataAt(prev[req.sheetName], Idx(req.row.v))
       # DataAt(prev[req.sheetName], Idx(req.row.v) + 1)

\* the sheet a request with timestamp ts writes to
TargetOf(ts) == getMonthSheetName(ParseTimestamp(ts))

\* the spreadsheet after a successful delete of row r of sheet name
AfterDelete(ss, name, r) == [ss EXCEPT ![name] = deleteRow(@, r)]

\* the row the append just answered has created
CreatedRow ==
  LET P == TargetOf(req.timestamp)
      k == CHOOSE n \in TxnRows(sheets[P]) :
             /\ sheets[P][n].data = <<Submitted(req)>>
             /\ (HasSheet(prev, P) => DataAt(prev[P], n) = <<>>)
  IN k + (FirstDataRow - 1)

\* C5 as stated: after an append, deleting the row it created gives back what
\* getAllData answered for the month before the append (totals, transaction
\* list, category amounts and shares, budget amount and share).
C5_AppendDeleteRestores ==
  Appended =>
    ViewOf(AfterDelete(sheets, TargetOf(req.timestamp), CreatedRow), TargetOf(req.timestamp))
      = ViewOf(prev, TargetOf(req.timestamp))

\* C5, amended: the same, for an append to a month whose sheet existed before
\* the append.
C5_AppendDeleteRestoresExisting ==
  (Appended /\ HasSheet(prev, TargetOf(req.timestamp))) =>
    ViewOf(AfterDelete(sheets, TargetOf(req.timestamp), CreatedRow), TargetOf(req.timestamp))
      = ViewOf(prev, TargetOf(req.timestamp))

\* an append to a sheet that held a transaction already
C5_Witness ==
  /\ Appended
  /\ HasSheet(prev, TargetOf(req.timestamp))
  /\ Len(DataOf(prev, TargetOf(req.timestamp))) >= 1
  /\ ViewOf(sheets, TargetOf(req.timestamp)) # ViewOf(prev, TargetOf(req.timestamp))

\* no valid date can be derived from timestamp ts
NoValidDate(ts) == ts.form = "missing" \/ ~ParseTimestamp(ts).valid

\* C6: addEntry, the JSON-body append and update answer a timestamp from which
\* no valid date can be derived with status "error" and leave the
\* spreadsheet exactly as it was.
C6_BadTimestampRefused ==
  (/\ req.action \in {"addEntry", "post", "update"}
   /\ "timestamp" \in DOMAIN req
   /\ NoValidDate(req.timestamp)) =>
    /\ resp.status = "error"
    /\ sheets = prev

\* an update of a row that holds a transaction was refused for its timestamp
C6_Witness ==
  /\ req.action = "update"
  /\ "timestamp" \in DOMAIN req
  /\ NoValidDate(req.timestamp)
  /\ HoldsTxn(prev, req.sheetName, req.row.v)
  /\ resp.status = "error"

\* C7: every stored transaction is in the sheet of the month and year of its
\* timestamp.
C7_PartitionKeyIsMonth ==
  \A name \in DOMAIN sheets :
    \A k \in TxnRows(sheets[name]) :
      TargetOf(sheets[name][k].data[1].timestamp) = name

\* a move has put a transaction whose text reads day 0 of February into the
\* January sheet, and the source sheet still holds a transaction
C7_Witness ==
  /\ Moved
  /\ req.timestamp.form = "dmy" /\ req.timestamp.m = 2
  /\ TargetOf(req.timestamp) = "January 2026"
  /\ Len(DataOf(sheets, "January 2026")) >= 1
  /\ Len(DataOf(sheets, req.sheetName)) >= 1

\* C8 as stated: every read action on a month without a sheet answers with
\* status "success" and zero or empty values, and changes nothing.
C8_ReadOfMissingMonth ==
  (/\ req.action \in ReadActions
   /\ ~HasSheet(prev, getSheetNameFromParams(<<req.year, req.month>>))) =>
    /\ resp.status = "success"
    /\ "totalEUR" \in DOMAIN resp =>
         resp.totalVND = 0 /\ resp.totalEUR = 0 /\ resp.totalUSD = 0
    /\ "transactions" \in DOMAIN resp => resp.transactions = <<>>
    /\ sheets = prev

\* C9: a delete or an update whose row is missing or below 3, whose sheet
\* name is missing, or whose sheet does not exist answers with status "error"
\* and leaves every sheet as it was.
C9_BadTargetRefused ==
  (/\ req.action \in {"delete", "update"}
   /\ \/ req.row.k # "num"
      \/ req.row.v < 3
      \/ req.sheetName = ""
      \/ ~HasSheet(prev, req.sheetName)) =>
    /\ resp.status = "error"
    /\ sheets = prev

\* an update naming a sheet that does not exist was refused while another
\* sheet holds a transaction
C9_Witness ==
  /\ req.action = "update"
  /\ req.row.k = "num" /\ req.row.v >= 3
  /\ req.sheetName # ""
  /\ ~HasSheet(prev, req.sheetName)
  /\ TxnCount(prev) >= 1
  /\ resp.status = "error"

\* C10 as stated: a sheet's budget amount is 1600 when the sheet is created
\* and afterwards changes only by a successful updateBudget for its month.
C10_BudgetOnlyByUpdateBudget ==
  \A name \in DOMAIN sheets :
    IF HasSheet(prev, name)
      THEN \/ Budget(sheets[name]).amount = Budget(prev[name]).amount
           \/ /\ Succeeded("updateBudget")
              /\ getSheetNameFromParams(<<req.year, req.month>>) = name
      ELSE Budget(sheets[name]).amount =
             IF Succeeded("updateBudget") THEN req.budget.v ELSE DefaultBudget

\* the sheet an updateBudget or read request addresses by year and month
Addressed(r) == getSheetNameFromParams(<<r.year, r.month>>)

\* C11: updateBudget with a missing, zero or negative budget, a non-numeric
\* year or month, or a month outside 1..12 answers "error" and leaves the
\* spreadsheet as it was; otherwise it answers "success", the month's sheet
\* exists and reports the given budget amount, and no cell A..F of any sheet
\* and no other sheet has changed.
C11_UpdateBudget ==
  req.action = "updateBudget" =>
    IF \/ req.budget.k # "num" \/ req.budget.v <= 0
       \/ req.year.k = "junk" \/ req.month.k = "junk"
       \/ (req.month.k = "num" /\ req.month.v \notin 1..12)
      THEN /\ resp.status = "error"
           /\ sheets = prev
      ELSE /\ resp.status = "success"
           /\ HasSheet(sheets, Addressed(req))
           /\ Budget(sheets[Addressed(req)]).amount = req.budget.v
           /\ \A k \in 1..(Len(sheets[Addressed(req)]) + 1) :
                DataAt(sheets[Addressed(req)], k) =
                  IF HasSheet(prev, Addressed(req))
                    THEN DataAt(prev[Addressed(req)], k) ELSE <<>>
           /\ OthersUnchanged(Addressed(req))

\* updateBudget has changed the budget of a sheet that holds a transaction
C11_Witness ==
  /\ Succeeded("updateBudget")
  /\ HasSheet(prev, Addressed(req))
  /\ Len(DataOf(prev, Addressed(req))) >= 1
  /\ Budget(prev[Addressed(req)]).amount # req.budget.v
  /\ Budget(sheets[Addressed(req)]).amount = req.budget.v

\* C12: no request removes a sheet, and a request that asks for a month whose
\* sheet exists (an append, a move into it, an updateBudget) works on that
\* sheet: no sheet is added, and the sheet keeps every row it had, with its
\* budget cell, apart from the row appended or the budget amount set.
C12_ExistingSheetKept ==
  /\ DOMAIN prev \subseteq DOMAIN sheets
  /\ ((Appended \/ Moved) /\ HasSheet(prev, TargetOf(req.timestamp))) =>
       /\ DOMAIN sheets = DOMAIN prev
       /\ sheets[TargetOf(req.timestamp)] =
            Append(prev[TargetOf(req.timestamp)],
                   [BlankRow EXCEPT !.data = <<Submitted(req)>>])
       /\ Budget(sheets[TargetOf(req.timestamp)]).amount =
            Budget(prev[TargetOf(req.timestamp)]).amount
  /\ (Succeeded("updateBudget") /\ HasSheet(prev, Addressed(req))) =>
       /\ DOMAIN sheets = DOMAIN prev
       /\ \A k \in 1..Len(prev[Addressed(req)]) :
            /\ DataAt(sheets[Addressed(req)], k) = DataAt(prev[Addressed(req)], k)
            /\ SummaryAt(sheets[Addressed(req)], k)[1] = SummaryAt(prev[Addressed(req)], k)[1]
            /\ SummaryAt(sheets[Addressed(req)], k)[3] = SummaryAt(prev[Addressed(req)], k)[3]
            /\ k # Idx(BudgetCellRow) =>
                 SummaryAt(sheets[Addressed(req)], k) = SummaryAt(prev[Addressed(req)], k)

\* an append to a sheet that existed, held a transaction and had its budget
\* set to another amount than the default
C12_Witness ==
  /\ Appended
  /\ HasSheet(prev, TargetOf(req.timestamp))
  /\ Len(DataOf(prev, TargetOf(req.timestamp))) >= 1
  /\ Budget(prev[TargetOf(req.timestamp)]).amount \notin {0, DefaultBudget}

\* C13 as stated: the transactions of a sheet are in the rows 3..n+2, n being
\* their number: the first append to a new sheet writes row 3 and no
\* operation leaves a gap.
C13_RowsContiguousFromThree ==
  \A name \in DOMAIN sheets :
    TxnRows(sheets[name]) = 1..Cardinality(TxnRows(sheets[name]))

\* the entry of a transaction list for sheet row r, if there is one
EntriesAt(list, r) == {i \in 1..Len(list) : list[i].row = r}

\* C14: between the two writes of a move the submitted transaction is the
\* last one of the target sheet and the source sheet is as it was before the
\* move, so the transaction is in both; a read of the source in between
\* lists the addressed row, a read of the target lists the appended row.
C14_MoveIntermediate ==
  pending # <<>> =>
    LET m == pending[1]
        P == m.req.sheetName
        T == TargetOf(m.req.timestamp)
    IN /\ T # P
       /\ HasSheet(sheets, T)
       /\ DataOf(sheets, T) = Append(DataOf(m.prev, T), Submitted(m.req))
       /\ HasSheet(sheets, P) /\ sheets[P] = m.prev[P]
       /\ (req.action \in {"getAllData", "getTransactions"} /\ Addressed(req) = T) =>
            /\ resp.transactions # <<>>
            /\ resp.transactions[1].row = LastRow(sheets[T])
            /\ resp.transactions[1].category = m.req.fields.category
       /\ (/\ req.action \in {"getAllData", "getTransactions"}
           /\ Addressed(req) = P
           /\ HoldsTxn(m.prev, P, m.req.row.v)) =>
            EntriesAt(resp.transactions, m.req.row.v) # {}

\* a read of the source sheet between the two writes of a move has listed
\* the row that is being moved
C14_Witness ==
  /\ pending # <<>>
  /\ req.action = "getTransactions"
  /\ Addressed(req) = pending[1].req.sheetName
  /\ HoldsTxn(pending[1].prev, pending[1].req.sheetName, pending[1].req.row.v)
  /\ EntriesAt(resp.transactions, pending[1].req.row.v) # {}
  /\ Len(DataOf(sheets, TargetOf(pending[1].req.timestamp))) >= 1

\* an update to another month has answered "error" after its append
MoveFailed ==
  /\ req.action = "update"
  /\ resp = err("Update failed")
  /\ "fields" \in DOMAIN req

\* C15: when the delete of a move fails after the append, the update answers
\* "error", the appended row stays in the target sheet and the source sheet
\* is as it was: the transaction is in both sheets.
C15_FailedMoveDuplicates ==
  MoveFailed =>
    LET P == req.sheetName
        T == TargetOf(req.timestamp)
    IN /\ resp.status = "error"
       /\ T # P
       /\ HasSheet(sheets, T)
       /\ DataOf(sheets, T) = Append(DataOf(prev, T), Submitted(req))
       /\ HasSheet(sheets, P) /\ sheets[P] = prev[P]
       /\ \A o \in DOMAIN prev \ {T} : sheets[o] = prev[o]

\* a failed move of a row that holds a transaction
C15_Witness ==
  /\ MoveFailed
  /\ HoldsTxn(prev, req.sheetName, req.row.v)
  /\ HoldsTxn(sheets, req.sheetName, req.row.v)
  /\ Len(DataOf(sheets, TargetOf(req.timestamp))) >= 1

RECURSIVE EurOf(_, _)
\* the EUR amounts of the transactions of list whose category is exactly c
EurOf(list, c) ==
  IF list = <<>> THEN 0
  ELSE (IF Head(list).category = c THEN Head(list).eur ELSE 0) + EurOf(Tail(list), c)

\* C16 as stated: the stats of a month have, for each of the nine categories,
\* the sum of the EUR amounts of the sheet's transactions whose category is
\* exactly that string, and as percent that amount over the total EUR as a
\* whole percentage, 0 when the total is 0.
C16_StatsPerCategory ==
  (req.action \in {"getAllData", "getStats"} /\ HasSheet(prev, Addressed(req))) =>
    \A n \in 1..Len(categories) :
      LET list == DataOf(prev, Addressed(req))
          amount == EurOf(list, categories[n])
          total == AmountSum(list, "eur")
      IN /\ categories[n] \in DOMAIN resp.stats
         /\ resp.stats[categories[n]].amount = amount
         /\ resp.stats[categories[n]].percent =
              IF total = 0 THEN 0 ELSE Round(100 * amount, total)

\* C17 as stated: for a sheet that reports a budget amount B > 0 and holds
\* transactions of total EUR T, the budget percent that getAllData and
\* getStats answer is (1 - T/B) as a whole percentage, round(100 * (1 - T/B)).
C17_BudgetPercent ==
  (/\ req.action \in {"getAllData", "getStats"}
   /\ HasSheet(prev, Addressed(req))
   /\ resp.budget.amount > 0) =>
    resp.budget.percent =
      Round(100 * (resp.budget.amount - AmountSum(DataOf(prev, Addressed(req)), "eur")),
            resp.budget.amount)

\* C18: getAllData and getTransactions answer, for a month that has a sheet,
\* the one list that has an entry for every row holding a transaction, and
\* no other entry, in strictly decreasing row order, each entry naming the
\* sheet and the row where the transaction with these fields is stored.
C18_TransactionList ==
  (req.action \in {"getAllData", "getTransactions"} /\ HasSheet(prev, Addressed(req))) =>
    LET P == Addressed(req)
        list == resp.transactions
    IN /\ Len(list) = Cardinality(TxnRows(prev[P]))
       /\ \A k \in TxnRows(prev[P]) : EntriesAt(list, k + (FirstDataRow - 1)) # {}
       /\ \A i \in 1..Len(list) :
            /\ i > 1 => list[i].row < list[i - 1].row
            /\ list[i].sheetName = P
            /\ HoldsTxn(prev, P, list[i].row)
            /\ LET t == DataAt(prev[P], Idx(list[i].row))[1]
               IN /\ list[i].timestamp = toISO(t.timestamp)
                  /\ list[i].vnd = t.vnd /\ list[i].eur = t.eur /\ list[i].usd = t.usd
                  /\ list[i].category = t.category /\ list[i].note = t.note

\* getTransactions has listed two different transactions of a sheet
C18_Witness ==
  /\ req.action = "getTransactions"
  /\ HasSheet(prev, Addressed(req))
  /\ Len(resp.transactions) >= 2
  /\ resp.transactions[1].eur # resp.transactions[2].eur

\* C19 as stated: the number of transactions over all sheets goes up by one
\* on a successful append, down by one on a successful delete of a row that
\* holds a transaction, and stays as it is on every other completed request
\* except a move whose delete failed: a successful update or delete of a row
\* that holds no transaction creates and removes none.
C19_CountChanges ==
  IF Appended THEN TxnCount(sheets) = TxnCount(prev) + 1
  ELSE IF Succeeded("delete")
    THEN TxnCount(sheets) =
           TxnCount(prev) - (IF HoldsTxn(prev, req.sheetName, req.row.v) THEN 1 ELSE 0)
  ELSE IF MoveFailed THEN TRUE
  ELSE TxnCount(sheets) = TxnCount(prev)

====
